---------------------------- MODULE Spec2Model ----------------------------
(***************************************************************************)
(* Model of the ARIMA forecasting batch of zolo-data-warehouse:            *)
(*   src/bin/modelling/lib.py           evaluate_arima_model,              *)
(*                                      evaluate_models                    *)
(*   src/bin/modelling/arima_models.py  main, extract, transform, model,   *)
(*                                      load                               *)
(*                                                                         *)
(* Six specifications share the same actions:                              *)
(*   Spec        main(): extract, transform, model (one Order Search per   *)
(*               entity), load, config write.                              *)
(*   SpecSearch  evaluate_models called directly on a sequence X and a     *)
(*               grid of orders.                                           *)
(*   SpecEval    evaluate_models called directly with a single order, on   *)
(*               any sequence: one call of evaluate_arima_model.           *)
(*   SpecGrid    evaluate_models called directly with two values in each   *)
(*               of the three ranges.                                      *)
(*   SpecTwice   evaluate_models called twice on the same arguments, with  *)
(*               a fitting routine that is a pure function of (history,    *)
(*               order).                                                   *)
(*   SpecPrepare transform and the entry of model applied to a table in    *)
(*               any row order, with rows on either side of the cutoff.    *)
(*                                                                         *)
(* The fitting library (statsmodels ARIMA) is outside the repository: the  *)
(* outcome of every fit is a nondeterministic choice between "raises" and  *)
(* a fitted model with some one-step forecast.                             *)
(*                                                                         *)
(* Numbers are integers.  An error score (a mean) is the fraction          *)
(* [num, den]; float("inf") is the fraction 1/0.  Python's None and        *)
(* optional values are the empty tuple << >>; a present value x is <<x>>   *)
(* (an order (p, d, q) is the tuple <<p, d, q>> itself).                   *)
(***************************************************************************)
EXTENDS Integers, Sequences, FiniteSets, TLC

VARIABLES
    pc,             \* position of the program
    ret,            \* who called evaluate_models: "model" or "caller"
    first_run,      \* what the caller's first call of evaluate_models
                    \* returned, once it has called a second time
    fit_memo,       \* the fitting routine: whether it is a pure function of
                    \* (history, order), and if so what it did for each
                    \* (history, order) it was given
    \* ---- evaluate_models (lib.py) ----
    X,              \* the sequence after astype('float32')
    p_values, d_values, q_values,
    k,              \* number of grid candidates already evaluated
    best_score, best_cfg, best_model,
    last_eval,      \* what the latest evaluate_arima_model call did
    results,        \* per call of evaluate_arima_model made by this search:
                    \* its order, whether it raised, what it returned
    \* ---- arima_models.py ----
    forecast_start, \* module-level cutoff (a week number)
    data,           \* result of extract()
    model_data,     \* result of transform()
    meta_df,        \* the table model() builds: its rows
    columns,        \* the table model() builds: its column names
    ids,            \* the entities the loop of model() iterates over
    i,              \* number of entities already processed by model()
    log,            \* logger.info lines written by model()
    searched,       \* per entity whose Order Search has returned: did any
                    \* of its candidates evaluate successfully
    db,             \* the model_meta table load() appends to
    last_model_run  \* cfg['last_model_run'] as written to config.yml

\* the caller of evaluate_models and the fitting routine
env_vars == <<ret, first_run, fit_memo>>
search_vars == <<X, p_values, d_values, q_values, k, best_score, best_cfg,
                 best_model, last_eval, results>>
batch_vars == <<forecast_start, data, model_data, meta_df, columns, ids, i,
                log, searched, db, last_model_run>>
vars == <<pc, env_vars, search_vars, batch_vars>>

-----------------------------------------------------------------------------
(* Bounds of the model *)

\* sequence values and forecasts are drawn from 0..MaxVal
MaxVal == 1
\* evaluate_models called directly: sequences of up to MaxLen values
MaxLen == 5
\* the batch: entities 1..NumEntities
NumEntities == 2
\* the batch: an entity has up to MaxWeeks distinct weeks before the cutoff
MaxWeeks == 6
\* the batch: the extracted table holds up to MaxRows rows
MaxRows == 12
\* the batch: the standard error of a forecast is drawn from 0..MaxStdErr
MaxStdErr == 1

(* Program constants *)

\* data['week_count'] > 5
MinWeekCount == 5
\* significand bits of numpy float32
Float32Bits == 24

-----------------------------------------------------------------------------
(* Python helpers *)

None == << >>

\* range(a, b) as a list
Range(a, b) == [n \in 1..(b - a) |-> a + n - 1]

\* seq[a:b], 0-based, end exclusive, clipped like a Python slice
Slice(seq, a, b) ==
    LET hi == IF b > Len(seq) THEN Len(seq) ELSE b
    IN  IF a >= hi THEN << >> ELSE [n \in 1..(hi - a) |-> seq[a + n]]

RECURSIVE Pow2(_)
Pow2(n) == IF n = 0 THEN 1 ELSE 2 * Pow2(n - 1)

RECURSIVE Ulp(_)
Ulp(v) == IF v < Pow2(Float32Bits) THEN 1 ELSE 2 * Ulp(v \div 2)

\* numpy astype('float32') of a non-negative integer: round to 24
\* significant bits, ties to even
AsFloat32(v) ==
    LET u == Ulp(v)
        q == v \div u
        r == v % u
    IN  IF 2 * r < u THEN q * u
        ELSE IF 2 * r > u THEN (q + 1) * u
        ELSE IF q % 2 = 0 THEN q * u ELSE (q + 1) * u

\* float("inf")
Inf == [num |-> 1, den |-> 0]

\* a < b on error scores
ScoreLess(a, b) == a.num * b.den < b.num * a.den

RECURSIVE SumSq(_, _)
SumSq(a, b) ==
    IF a = << >> THEN 0
    ELSE (a[1] - b[1]) * (a[1] - b[1]) + SumSq(Tail(a), Tail(b))

\* faulty variant: the squared errors are summed, not averaged
SumSquaredError(test, predictions) ==
    [num |-> SumSq(test, predictions), den |-> 1]

\* sklearn mean_squared_error(test, predictions), both non-empty
MeanSquaredError(test, predictions) ==
    [num |-> SumSq(test, predictions), den |-> Len(test)]

-----------------------------------------------------------------------------
(* lib.py: evaluate_arima_model *)

\* what ARIMA(history, order).fit(disp=0) followed by forecast()[0] can do:
\* raise (None), or give a forecast
FitOutcomes == {None} \cup {<<y>> : y \in 0..MaxVal}

\* the outcomes of the fits of one walk-forward loop of n steps; nothing is
\* fitted after a fit that raised
WalkOutcomes(n) ==
    {o \in [1..n -> FitOutcomes] :
        \A t \in 1..(n - 1) : o[t] = None => o[t + 1] = None}

\* the fitting routine when nothing is assumed of it, and when it is a pure
\* function of (history, order)
AnyFit == [pure |-> FALSE, seen |-> {}]
PureFit == [pure |-> TRUE, seen |-> {}]

\* faulty variant: the training size rounded up, int(len(X) * 0.75 + 0.75)
TrainSizeRoundedUp(x) == (3 * Len(x) + 3) \div 4

\* int(len(X) * 0.75)
TrainSize(x) == (3 * Len(x)) \div 4

TestOf(x) == Slice(x, TrainSize(x), Len(x))

\* faulty variant: the forecast is appended to history instead of the actual value
HistoryAppendForecast(test, predictions, t) == predictions[t]

\* what is appended to history after the forecast of test[t]
HistoryAppend(test, predictions, t) == test[t]

\* the walk-forward loop from step st.t on; outcomes[t] is what the fit of
\* step t does
RECURSIVE WalkForward(_, _, _, _)
WalkForward(st, test, order, outcomes) ==
    IF st.raised \/ st.t >= Len(test) THEN st
    ELSE LET o == outcomes[st.t + 1]
             fitted == [order |-> order, hist |-> st.history, yhat |-> o[1]]
             preds == Append(st.predictions, o[1])
         IN  IF o = None
             THEN [st EXCEPT !.raised = TRUE,
                             !.fits = Append(@, st.history)]
             ELSE WalkForward(
                    [t |-> st.t + 1,
                     history |-> Append(st.history,
                                        HistoryAppend(test, preds, st.t + 1)),
                     predictions |-> preds,
                     model_fit |-> <<fitted>>,
                     raised |-> FALSE,
                     fits |-> Append(st.fits, st.history)],
                    test, order, outcomes)

\* faulty variant: model_fit bound before the loop and the score of no
\* values accepted
EmptyTestAccepted(test) == FALSE

\* lines 32-33 when the loop body never ran: mean_squared_error rejects
\* empty input, and model_fit was never bound
EmptyTestRaises(test) == Len(test) = 0

\* one call evaluate_arima_model(x, order): raised = an exception left the
\* call; otherwise mse and model_fit are its return value
evaluate_arima_model(x, order, outcomes) ==
    LET train == Slice(x, 0, TrainSize(x))
        test == TestOf(x)
        st == WalkForward([t |-> 0, history |-> train, predictions |-> << >>,
                           model_fit |-> None, raised |-> FALSE,
                           fits |-> << >>],
                          test, order, outcomes)
        failed == st.raised \/ EmptyTestRaises(test)
    IN  [order |-> order,
         train |-> train,
         test |-> test,
         raised |-> failed,
         fits |-> st.fits,
         history |-> st.history,
         predictions |-> st.predictions,
         mse |-> IF failed THEN Inf ELSE MeanSquaredError(test, st.predictions),
         model_fit |-> IF failed THEN None ELSE st.model_fit]

\* the fits one call made: the history and order given, and what the fit did
FitsOf(r, outcomes) ==
    {<<r.fits[t], r.order, outcomes[t]>> : t \in DOMAIN r.fits}

\* faulty variant: the fit starts from random parameters, so that it need
\* not do again what it did for the same history and order
FitNeedNotRepeat(r, outcomes) == TRUE

\* a pure fitting routine does again what it did for the same history and
\* order
AgreesWithMemo(r, outcomes) ==
    fit_memo.pure =>
        \A c \in FitsOf(r, outcomes) : \A m \in fit_memo.seen :
            (m[1] = c[1] /\ m[2] = c[2]) => m[3] = c[3]

Remember(r, outcomes) ==
    IF fit_memo.pure
    THEN [fit_memo EXCEPT !.seen = @ \cup FitsOf(r, outcomes)]
    ELSE fit_memo

NoEval == [order |-> None, train |-> << >>, test |-> << >>,
           raised |-> FALSE, fits |-> << >>,
           history |-> << >>, predictions |-> << >>, mse |-> Inf,
           model_fit |-> None]

-----------------------------------------------------------------------------
(* lib.py: evaluate_models *)

\* faulty variant: the loops nested the other way round, q outer and p inner
GridQOuter(ps, ds, qs) ==
    [n \in 1..(Len(ps) * Len(ds) * Len(qs)) |->
        LET j == n - 1
        IN  <<ps[(j % Len(ps)) + 1],
              ds[((j \div Len(ps)) % Len(ds)) + 1],
              qs[(j \div (Len(ps) * Len(ds))) + 1]>>]

\* the candidates in the order of the three nested loops
Grid(ps, ds, qs) ==
    [n \in 1..(Len(ps) * Len(ds) * Len(qs)) |->
        LET j == n - 1
        IN  <<ps[(j \div (Len(ds) * Len(qs))) + 1],
              ds[((j \div Len(qs)) % Len(ds)) + 1],
              qs[(j % Len(qs)) + 1]>>]

TheGrid == Grid(p_values, d_values, q_values)

\* faulty variant: the search starts from a default order instead of None
InitialBestDefaulted == [score |-> Inf, cfg |-> <<0, 0, 0>>, model |-> None]

\* best_score, best_cfg, best_model = float("inf"), None, None
InitialBest == [score |-> Inf, cfg |-> None, model |-> None]

\* faulty variant: if mse <= best_score
ImprovesOrTies(mse, best) == ~ScoreLess(best, mse)

\* faulty variant: the comparison is missing: the latest success is kept
ImprovesAlways(mse, best) == TRUE

\* if mse < best_score
Improves(mse, best) == ScoreLess(mse, best)

\* faulty variant: the except clause does not match what the call raised
CaughtNothing(r) == FALSE

\* does the except clause of the grid loop catch what the call raised
Caught(r) == r.raised

\* what the search sees of one call: the exception or the returned pair
CallRecord(r) ==
    [order |-> r.order, raised |-> r.raised, nfit |-> Len(r.fits),
     mse |-> r.mse, model_fit |-> r.model_fit]

\* the state evaluate_models starts from, lines 46-48
SearchEntry(x, ps, ds, qs) ==
    /\ X' = [n \in 1..Len(x) |-> AsFloat32(x[n])]
    /\ p_values' = ps
    /\ d_values' = ds
    /\ q_values' = qs
    /\ k' = 0
    /\ best_score' = InitialBest.score
    /\ best_cfg' = InitialBest.cfg
    /\ best_model' = InitialBest.model
    /\ last_eval' = NoEval
    /\ results' = << >>

\* faulty variant: best_model = model assigned outside the if, for every
\* candidate that evaluated
KeepModelOfLatest(r) ==
    /\ best_model' = IF r.raised THEN best_model ELSE r.model_fit
    /\ IF ~r.raised /\ Improves(r.mse, best_score)
       THEN /\ best_score' = r.mse
            /\ best_cfg' = r.order
       ELSE UNCHANGED <<best_score, best_cfg>>

\* the effect of one candidate's result on the best-so-far, lines 59-68
Keep(r) ==
    IF ~r.raised /\ Improves(r.mse, best_score)
    THEN /\ best_score' = r.mse
         /\ best_cfg' = r.order
         /\ best_model' = r.model_fit
    ELSE UNCHANGED <<best_score, best_cfg, best_model>>

\* one iteration of the grid loop
EvaluateCandidate ==
    /\ pc = "search"
    /\ k < Len(TheGrid)
    /\ LET order == TheGrid[k + 1]
       IN  \E outcomes \in WalkOutcomes(Len(TestOf(X))) :
             LET r == evaluate_arima_model(X, order, outcomes)
             IN  /\ AgreesWithMemo(r, outcomes)
                 /\ fit_memo' = Remember(r, outcomes)
                 /\ last_eval' = r
                 /\ results' = Append(results, CallRecord(r))
                 /\ IF r.raised /\ ~Caught(r)
                    THEN /\ pc' = "crashed"
                         /\ UNCHANGED <<k, best_score, best_cfg, best_model>>
                    ELSE /\ pc' = pc
                         /\ k' = k + 1
                         /\ Keep(r)
    /\ UNCHANGED <<ret, first_run, X, p_values, d_values, q_values, batch_vars>>

\* return best_cfg, best_score, best_model to a direct caller
SearchReturn ==
    /\ pc = "search"
    /\ ret = "caller"
    /\ k >= Len(TheGrid)
    /\ pc' = "returned"
    /\ UNCHANGED <<env_vars, search_vars, batch_vars>>

-----------------------------------------------------------------------------
(* evaluate_models called directly *)

RECURSIVE SeqsUpTo(_, _)
SeqsUpTo(S, n) ==
    IF n = 0 THEN {<< >>}
    ELSE LET shorter == SeqsUpTo(S, n - 1)
         IN  shorter \cup {Append(s, v) : s \in {t \in shorter : Len(t) = n - 1},
                                          v \in S}

\* every sequence of up to MaxLen values
EvalInputs == SeqsUpTo(0..MaxVal, MaxLen)

\* The outcome of a fit is drawn whatever the values of its history, so the
\* values of the training prefix cannot change what a search does: the
\* searches start from the sequences whose training prefix is all zero.
SearchInputs == {x \in EvalInputs : \A n \in 1..TrainSize(x) : x[n] = 0}

\* the grids of a search: that of the end-to-end scenario (p in {0,1},
\* d in {0,1}, q in {0}) and an empty one
SearchGrids ==
    {<<Range(0, 2), Range(0, 2), Range(0, 1)>>,
     <<Range(0, 0), Range(0, 2), Range(0, 1)>>}

\* one order: one call of evaluate_arima_model
EvalGrids ==
    {<<Range(0, 1), Range(0, 1), Range(0, 1)>>,
     <<Range(1, 2), Range(1, 2), Range(0, 1)>>}

NoBatch ==
    /\ forecast_start = 0
    /\ data = << >>
    /\ model_data = << >>
    /\ meta_df = << >>
    /\ columns = {}
    /\ ids = << >>
    /\ i = 0
    /\ log = << >>
    /\ searched = << >>
    /\ db = << >>
    /\ last_model_run = None

DirectCall(inputs, grids) ==
    /\ pc = "search"
    /\ ret = "caller"
    /\ first_run = None
    /\ X \in {[n \in 1..Len(x) |-> AsFloat32(x[n])] : x \in inputs}
    /\ \E g \in grids :
         /\ p_values = g[1]
         /\ d_values = g[2]
         /\ q_values = g[3]
    /\ k = 0
    /\ best_score = InitialBest.score
    /\ best_cfg = InitialBest.cfg
    /\ best_model = InitialBest.model
    /\ last_eval = NoEval
    /\ results = << >>
    /\ NoBatch

InitSearch == DirectCall(SearchInputs, SearchGrids) /\ fit_memo = AnyFit

InitEval == DirectCall(EvalInputs, EvalGrids) /\ fit_memo = AnyFit

NextSearch == EvaluateCandidate \/ SearchReturn

SpecSearch == InitSearch /\ [][NextSearch]_vars

SpecEval == InitEval /\ [][NextSearch]_vars

\* a search over a grid with two values in each of the three ranges, on the
\* sequences of at most one value
GridInputs == {x \in SearchInputs : Len(x) <= 1}

FullGrids == {<<Range(0, 2), Range(0, 2), Range(0, 2)>>}

InitGrid == DirectCall(GridInputs, FullGrids) /\ fit_memo = AnyFit

SpecGrid == InitGrid /\ [][NextSearch]_vars

\* evaluate_models called twice by the same caller on the same sequence and
\* ranges, with a fitting routine that is a pure function of (history,
\* order): after the first call returned, the second starts from line 46
\* again (the sequence passed is the same one; casting it again changes
\* nothing)
CallAgain ==
    /\ pc = "returned"
    /\ ret = "caller"
    /\ first_run = None
    /\ first_run' = <<[cfg |-> best_cfg, score |-> best_score,
                       model |-> best_model]>>
    /\ SearchEntry(X, p_values, d_values, q_values)
    /\ pc' = "search"
    /\ UNCHANGED <<ret, fit_memo, batch_vars>>

\* two orders, (0,0,0) and (1,0,0)
TwiceGrids == {<<Range(0, 2), Range(0, 1), Range(0, 1)>>}

InitTwice == DirectCall(SearchInputs, TwiceGrids) /\ fit_memo = PureFit

NextTwice == EvaluateCandidate \/ SearchReturn \/ CallAgain

SpecTwice == InitTwice /\ [][NextTwice]_vars

-----------------------------------------------------------------------------
(* arima_models.py: the table extract() returns *)

Entities == 1..NumEntities

\* the cutoff: weeks 1..MaxWeeks are before it
ForecastStart == MaxWeeks + 1

\* One entity's rows: one row for each of its first `weeks` weeks, a second
\* row for the last of them if `dup`, a row at the cutoff week if `late`.
\* An entity has no week before the cutoff, or from one less than the
\* threshold up to MaxWeeks.  The weight of a row is its week number.
Shapes ==
    {s \in [weeks : {0} \cup ((MinWeekCount - 1)..MaxWeeks),
            dup : BOOLEAN, late : BOOLEAN] :
        s.dup => s.weeks >= 1}

ShapeRows(s) == s.weeks + (IF s.dup THEN 1 ELSE 0) + (IF s.late THEN 1 ELSE 0)

Row(e, w) == [profile_name |-> e, week_date |-> w, weight |-> w]

RowsOf(e, s) ==
    [w \in 1..s.weeks |-> Row(e, w)]
    \o (IF s.dup THEN <<Row(e, s.weeks)>> ELSE << >>)
    \o (IF s.late THEN <<Row(e, ForecastStart)>> ELSE << >>)

RECURSIVE TotalRows(_, _)
TotalRows(sh, e) == IF e = 0 THEN 0 ELSE ShapeRows(sh[e]) + TotalRows(sh, e - 1)

\* order by profile_name, week_date
RECURSIVE TableOf(_, _)
TableOf(sh, e) == IF e = 0 THEN << >> ELSE TableOf(sh, e - 1) \o RowsOf(e, sh[e])

Tables ==
    {TableOf(sh, NumEntities) :
        sh \in {t \in [Entities -> Shapes] : TotalRows(t, NumEntities) <= MaxRows}}

-----------------------------------------------------------------------------
(* arima_models.py: transform *)

\* faulty variant: data['week_date'] <= forecast_start
UpToCutoff(rows, cutoff) ==
    SelectSeq(rows, LAMBDA r : r.week_date <= cutoff)

\* data[data['week_date'] < forecast_start]
BeforeCutoff(rows, cutoff) ==
    SelectSeq(rows, LAMBDA r : r.week_date < cutoff)

\* data['week_date'].groupby(data['profile_name']).transform('count')
WeekCount(rows, name) ==
    Cardinality({n \in DOMAIN rows : rows[n].profile_name = name})

WithWeekCount(rows) ==
    [n \in DOMAIN rows |->
        [profile_name |-> rows[n].profile_name,
         week_date |-> rows[n].week_date,
         weight |-> rows[n].weight,
         week_count |-> WeekCount(rows, rows[n].profile_name)]]

\* data[data['week_count'] > 5]
EnoughHistory(rows) ==
    SelectSeq(rows, LAMBDA r : r.week_count > MinWeekCount)

KeyLess(a, b) == a[1] < b[1] \/ (a[1] = b[1] /\ a[2] < b[2])

RECURSIVE SortKeys(_)
SortKeys(S) ==
    IF S = {} THEN << >>
    ELSE LET m == CHOOSE a \in S : \A b \in S \ {a} : KeyLess(a, b)
         IN  <<m>> \o SortKeys(S \ {m})

\* faulty variant: groupby(...).first(), the value of the first row of the
\* group
FirstOfField(rows, key, f) ==
    LET n == CHOOSE a \in DOMAIN rows :
                /\ <<rows[a].week_date, rows[a].profile_name>> = key
                /\ \A b \in 1..(a - 1) :
                      <<rows[b].week_date, rows[b].profile_name>> # key
    IN  rows[n][f]

RECURSIVE SumField(_, _, _)
SumField(rows, key, f) ==
    IF rows = << >> THEN 0
    ELSE (IF <<rows[1].week_date, rows[1].profile_name>> = key
          THEN rows[1][f] ELSE 0)
         + SumField(Tail(rows), key, f)

\* the keys of the rows in the order in which they are first met
RECURSIVE KeysAsMet(_)
KeysAsMet(rows) ==
    IF rows = << >> THEN << >>
    ELSE LET n == Len(rows)
             before == KeysAsMet(SubSeq(rows, 1, n - 1))
             key == <<rows[n].week_date, rows[n].profile_name>>
         IN  IF \E m \in DOMAIN before : before[m] = key
             THEN before ELSE Append(before, key)

\* faulty variant: groupby(..., sort=False), the groups in the order in which
\* they are first met
GroupKeysAsMet(rows) == KeysAsMet(rows)

\* the group keys of groupby(['week_date', 'profile_name']): sorted
GroupKeys(rows) ==
    SortKeys({<<rows[n].week_date, rows[n].profile_name>> : n \in DOMAIN rows})

\* groupby(['week_date', 'profile_name']).sum().reset_index(): one row per
\* key, keys ascending, every other column summed
GroupBySum(rows) ==
    LET keys == GroupKeys(rows)
    IN  [n \in DOMAIN keys |->
            [week_date |-> keys[n][1],
             profile_name |-> keys[n][2],
             weight |-> SumField(rows, keys[n], "weight"),
             week_count |-> SumField(rows, keys[n], "week_count")]]

transform(rows, cutoff) ==
    GroupBySum(EnoughHistory(WithWeekCount(BeforeCutoff(rows, cutoff))))

-----------------------------------------------------------------------------
(* arima_models.py: model *)

RECURSIVE SortInts(_)
SortInts(S) ==
    IF S = {} THEN << >>
    ELSE LET m == CHOOSE a \in S : \A b \in S : a <= b
         IN  <<m>> \o SortInts(S \ {m})

RECURSIVE SortedInsert(_, _)
SortedInsert(seq, v) ==
    IF seq = << >> THEN <<v>>
    ELSE IF v <= seq[1] THEN <<v>> \o seq
    ELSE <<seq[1]>> \o SortedInsert(Tail(seq), v)

RECURSIVE SortedNames(_)
SortedNames(rows) ==
    IF rows = << >> THEN << >>
    ELSE SortedInsert(SortedNames(Tail(rows)), rows[1].profile_name)

\* faulty variant: model_data['profile_name'].sort_values(), unique() forgotten
SortedAll(rows) == SortedNames(rows)

Reverse(seq) == [n \in DOMAIN seq |-> seq[Len(seq) + 1 - n]]

\* faulty variant: sort_values(ascending=False)
SortedUniqueDescending(rows) ==
    Reverse(SortInts({rows[n].profile_name : n \in DOMAIN rows}))

\* model_data['profile_name'].sort_values().unique()
SortedUnique(rows) == SortInts({rows[n].profile_name : n \in DOMAIN rows})

\* model_data[model_data['profile_name'] == zolo_id]['weight'].values
WeightsOf(rows, name) ==
    LET mine == SelectSeq(rows, LAMBDA r : r.profile_name = name)
    IN  [n \in DOMAIN mine |-> mine[n].weight]

\* the grid main() passes is range(0, 5) x range(0, 2) x range(0, 5); the
\* batch is checked with the two orders (0,0,0) and (1,0,0)
MainGrid == <<Range(0, 2), Range(0, 1), Range(0, 1)>>

\* what best_model.forecast() returns for a fitted model: the one-step
\* forecast beyond the history it was fitted on, and a standard error
Forecasts(m) == {<<m.yhat, se>> : se \in 0..MaxStdErr}

\* faulty variant: pd.DataFrame() without the columns argument
NoColumns == {}

\* the columns of the empty frame of lines 185-191 (the temp_df of every
\* entity has the same ones)
FrameColumns ==
    {"profile_name", "best_config", "mse", "prediction", "std_error"}

\* the columns assigned on lines 216, 217 and 220
DerivedColumns == {"lower_bound", "upper_bound", "forecast_start"}

\* faulty variant: the margin is added on the lower side too
LowerBoundAdded(prediction, std_error) == 100 * prediction + 196 * std_error

\* meta_df['prediction'] - (1.96 * meta_df['std_error']), in hundredths
LowerBound(prediction, std_error) == 100 * prediction - 196 * std_error

\* meta_df['prediction'] + (1.96 * meta_df['std_error']), in hundredths
UpperBound(prediction, std_error) == 100 * prediction + 196 * std_error

\* faulty variant: the date is taken for each record, not once for the batch
StampPerRecord(start, n) == start + n - 1

\* meta_df['forecast_start'] = forecast_start: the stamp of the n-th record
Stamp(start, n) == start

\* lines 215-220; the bounds are kept in hundredths
Finished(df, start) ==
    [n \in DOMAIN df |->
        [profile_name |-> df[n].profile_name,
         best_config |-> df[n].best_config,
         mse |-> df[n].mse,
         prediction |-> df[n].prediction,
         std_error |-> df[n].std_error,
         lower_bound |-> LowerBound(df[n].prediction, df[n].std_error),
         upper_bound |-> UpperBound(df[n].prediction, df[n].std_error),
         forecast_start |-> Stamp(start, n)]]

\* faulty variant: the config file is written before load is called
MainStagesConfigFirst ==
    <<"extract", "transform", "model", "config", "load", "done">>

\* main, lines 52-60: the stages in the order of its statements
MainStages == <<"extract", "transform", "model", "load", "config", "done">>

\* where main goes on when a stage has returned
StageAfter(stage) ==
    MainStages[(CHOOSE n \in DOMAIN MainStages : MainStages[n] = stage) + 1]

\* main line 44, and extract() returning a table
Extract ==
    /\ pc = "extract"
    /\ data' \in Tables
    /\ log' = log \o <<<<"start_date", forecast_start>>,
                        <<"Begin Extract">>,
                        <<"Data Extraction completed successfully">>>>
    /\ pc' = StageAfter("extract")
    /\ UNCHANGED <<env_vars, search_vars, forecast_start, model_data, meta_df,
                   columns, ids, i, searched, db, last_model_run>>

\* extract() raising (the database cannot be reached or queried): nothing
\* catches it
ExtractRaises ==
    /\ pc = "extract"
    /\ log' = log \o <<<<"start_date", forecast_start>>, <<"Begin Extract">>>>
    /\ pc' = "extract_failed"
    /\ UNCHANGED <<env_vars, search_vars, forecast_start, data, model_data,
                   meta_df, columns, ids, i, searched, db, last_model_run>>

Transform ==
    /\ pc = "transform"
    /\ model_data' = transform(data, forecast_start)
    /\ log' = log \o <<<<"Begin data transformation">>,
                        <<"Data transformation completed successfully">>>>
    /\ pc' = StageAfter("transform")
    /\ UNCHANGED <<env_vars, search_vars, forecast_start, data, meta_df, columns,
                   ids, i, searched, db, last_model_run>>

\* lines 182-194: the empty frame and the entities to loop over
ModelBegin ==
    /\ pc = "model"
    /\ meta_df' = << >>
    /\ columns' = FrameColumns
    /\ ids' = SortedUnique(model_data)
    /\ i' = 0
    /\ log' = Append(log, <<"Begin modelling">>)
    /\ pc' = "model_loop"
    /\ UNCHANGED <<env_vars, search_vars, forecast_start, data, model_data,
                   searched, db, last_model_run>>

\* lines 194-200: the next entity, up to the entry of evaluate_models
ModelNext ==
    /\ pc = "model_loop"
    /\ i < Len(ids)
    /\ SearchEntry(WeightsOf(model_data, ids[i + 1]),
                   MainGrid[1], MainGrid[2], MainGrid[3])
    /\ pc' = "search"
    /\ UNCHANGED <<env_vars, batch_vars>>

\* lines 200-213: evaluate_models returns (its frame is gone; best_cfg, mse
\* and best_model are now locals of model); forecast, store, log
ModelStore ==
    /\ pc = "search"
    /\ ret = "model"
    /\ k >= Len(TheGrid)
    /\ searched' = Append(searched,
            [profile_name |-> ids[i + 1],
             any_ok |-> \E n \in DOMAIN results : ~results[n].raised])
    /\ IF best_model = None
       THEN \* None.forecast(): AttributeError, which nothing catches
            /\ pc' = "crashed"
            /\ UNCHANGED <<meta_df, i, log>>
       ELSE \E forecast \in Forecasts(best_model[1]) :
            /\ meta_df' = Append(meta_df,
                    [profile_name |-> ids[i + 1],
                     best_config |-> best_cfg,
                     mse |-> best_score,
                     prediction |-> forecast[1],
                     std_error |-> forecast[2]])
            /\ i' = i + 1
            /\ log' = Append(log, <<"model complete", ids[i + 1]>>)
            /\ pc' = "model_loop"
    /\ last_eval' = NoEval
    /\ results' = << >>
    /\ UNCHANGED <<env_vars, X, p_values, d_values, q_values, k, best_score,
                   best_cfg, best_model, forecast_start, data, model_data,
                   columns, ids, db, last_model_run>>

\* lines 215-222: the loop is over
ModelFinish ==
    /\ pc = "model_loop"
    /\ i >= Len(ids)
    /\ meta_df' = Finished(meta_df, forecast_start)
    /\ columns' = columns \cup DerivedColumns
    /\ pc' = StageAfter("model")
    /\ UNCHANGED <<env_vars, search_vars, forecast_start, data, model_data, ids, i,
                   log, searched, db, last_model_run>>

\* load(meta_df): append to model_meta
Load ==
    /\ pc = "load"
    /\ db' = db \o meta_df
    /\ log' = log \o <<<<"Begin data load">>,
                        <<"Loading records", Len(meta_df)>>,
                        <<"Data load completed successfully">>>>
    /\ pc' = StageAfter("load")
    /\ UNCHANGED <<env_vars, search_vars, forecast_start, data, model_data, meta_df,
                   columns, ids, i, searched, last_model_run>>

\* load(meta_df) raising (the database cannot be reached, or rejects the
\* rows and rolls the insert back): nothing catches it
LoadRaises ==
    /\ pc = "load"
    /\ log' = Append(log, <<"Begin data load">>)
    /\ pc' = "load_failed"
    /\ UNCHANGED <<env_vars, search_vars, forecast_start, data, model_data, meta_df,
                   columns, ids, i, searched, db, last_model_run>>

\* main, lines 57-60
ConfigWrite ==
    /\ pc = "config"
    /\ last_model_run' = <<forecast_start>>
    /\ pc' = StageAfter("config")
    /\ UNCHANGED <<env_vars, search_vars, forecast_start, data, model_data, meta_df,
                   columns, ids, i, log, searched, db>>

\* main at the given stage, with the given table extracted
MainAt(stage, table) ==
    /\ pc = stage
    /\ ret = "model"
    /\ first_run = None
    /\ fit_memo = AnyFit
    /\ X = << >>
    /\ p_values = << >>
    /\ d_values = << >>
    /\ q_values = << >>
    /\ k = 0
    /\ best_score = Inf
    /\ best_cfg = None
    /\ best_model = None
    /\ last_eval = NoEval
    /\ results = << >>
    /\ forecast_start = ForecastStart
    /\ data = table
    /\ model_data = << >>
    /\ meta_df = << >>
    /\ columns = {}
    /\ ids = << >>
    /\ i = 0
    /\ log = << >>
    /\ searched = << >>
    /\ db = << >>
    /\ last_model_run = None

Init == MainAt("extract", << >>)

Next ==
    \/ Extract
    \/ ExtractRaises
    \/ Transform
    \/ ModelBegin
    \/ ModelNext
    \/ EvaluateCandidate
    \/ ModelStore
    \/ ModelFinish
    \/ Load
    \/ LoadRaises
    \/ ConfigWrite

Spec == Init /\ [][Next]_vars

-----------------------------------------------------------------------------
(* transform and the entry of model on any table *)

\* a row of an entity after the cutoff week, or none
AfterCutoffRows == {<< >>} \cup {<<Row(e, ForecastStart + 1)>> : e \in Entities}

\* the tables given to transform: those of extract, with or without a row
\* after the cutoff, in the order of the query or in the reverse order
PreparerInputs ==
    UNION {{t \o a, Reverse(t \o a)} : t \in Tables, a \in AfterCutoffRows}

InitPrepare == \E t \in PreparerInputs : MainAt("transform", t)

NextPrepare == Transform \/ ModelBegin \/ ModelNext

SpecPrepare == InitPrepare /\ [][NextPrepare]_vars

-----------------------------------------------------------------------------
(* Properties *)

\* the calls of this search that returned a score and a model
Successes == {n \in DOMAIN results : ~results[n].raised}

ScoreLeq(a, b) == ~ScoreLess(b, a)

Returned == pc = "returned"

\* C1: when at least one candidate evaluates successfully, evaluate_models
\* returns the minimum error score over all successfully evaluated
\* candidates, an order of the grid whose evaluation produced exactly that
\* score, and the model that same evaluation returned.
C1_ReturnsMinimum ==
    (Returned /\ Successes # {}) =>
        /\ \A n \in Successes : ScoreLeq(best_score, results[n].mse)
        /\ \E n \in Successes :
              /\ results[n].mse = best_score
              /\ TheGrid[n] = best_cfg
              /\ results[n].order = best_cfg
              /\ results[n].model_fit = best_model

\* a search returned a later candidate that scored strictly lower than an
\* earlier successful one
C1_Witness ==
    /\ Returned
    /\ \E n, m \in Successes :
          /\ n < m
          /\ ScoreLess(results[m].mse, results[n].mse)
          /\ best_cfg = results[m].order

\* C2: among the successful candidates with the lowest score, the one
\* enumerated first is kept, at every point of the loop; and the best-so-far
\* is replaced only by a strictly lower score.
C2_FirstOfTheLowest ==
    Successes # {} =>
        \E n \in Successes :
            /\ results[n].order = best_cfg
            /\ results[n].mse = best_score
            /\ results[n].model_fit = best_model
            /\ \A m \in Successes : ScoreLeq(best_score, results[m].mse)
            /\ \A m \in Successes : m < n => ScoreLess(best_score, results[m].mse)

C2_ReplacedOnlyByLower ==
    (best_cfg' # best_cfg \/ best_model' # best_model
        \/ best_score' # best_score)
    => ScoreLess(best_score', best_score)

C2_TieKeepsEarlier == [] C2_FirstOfTheLowest /\ [][C2_ReplacedOnlyByLower]_vars

\* two candidates of one search returned the same lowest score, and the
\* earlier one is the result
C2_Witness ==
    /\ Returned
    /\ \E n, m \in Successes :
          /\ n < m
          /\ results[n].mse = results[m].mse
          /\ results[n].mse = best_score
          /\ best_cfg = results[n].order
          /\ best_cfg # results[m].order

\* the step just taken evaluated a candidate, and its evaluation raised
CandidateRaised ==
    /\ Len(results') = Len(results) + 1
    /\ results'[Len(results')].raised

\* C3: a candidate whose evaluation raises leaves best_score, best_cfg and
\* best_model unchanged, the exception does not leave evaluate_models, and
\* the search goes on: when it returns, every candidate of the grid was
\* evaluated.
C3_SkipStep ==
    CandidateRaised =>
        /\ best_score' = best_score
        /\ best_cfg' = best_cfg
        /\ best_model' = best_model
        /\ pc' = "search"
        /\ k' = k + 1

C3_AllEvaluated ==
    /\ pc # "crashed"
    /\ Returned =>
          /\ Len(results) = Len(TheGrid)
          /\ \A n \in DOMAIN results : results[n].order = TheGrid[n]

C3_FailureIsSkipped == [] C3_AllEvaluated /\ [][C3_SkipStep]_vars

\* a search returned in which a candidate raised at the second fit of its
\* walk-forward loop, after a candidate that succeeded and before another
C3_Witness ==
    /\ Returned
    /\ \E a, n, m \in DOMAIN results :
          /\ a < n /\ n < m
          /\ ~results[a].raised
          /\ results[n].raised /\ results[n].nfit = 2
          /\ ~results[m].raised
          /\ best_cfg = results[a].order

\* C4: if no candidate evaluates successfully (or the grid is empty) the
\* search returns (None, inf, None); a non-None best_cfg is returned only if
\* some candidate succeeded.
C4_NoAdmissibleOrder ==
    Returned =>
        /\ Successes = {} =>
              (best_cfg = None /\ best_model = None /\ best_score = Inf)
        /\ best_cfg # None => Successes # {}

\* a search over a non-empty grid returned with every candidate failed
C4_Witness ==
    /\ Returned
    /\ X # << >>
    /\ Len(results) >= 2
    /\ Successes = {}
    /\ best_cfg = None

\* the table model() returned: main is past the call
ModelReturned == pc \in {"load", "config", "done"}

NamesOf(rows) == {rows[n].profile_name : n \in DOMAIN rows}

\* the entities whose Order Search returned "no admissible order"
Inadmissible == {searched[n].profile_name : n \in {m \in DOMAIN searched : ~searched[m].any_ok}}

\* C5: an entity whose Order Search returned "no admissible order" does not
\* crash the batch (model() goes on to the other entities and returns).
C5_InadmissibleEntityIsSkipped ==
    Inadmissible # {} => pc # "crashed"

\* C6: the table model() builds holds one record per entity whose search had
\* a successful candidate, in the order searched, no entity twice, none for
\* an entity without an admissible order and none for an entity absent from
\* the Preparer output; when model() returns, every entity of the Preparer
\* output was searched.
C6_OneRecordPerAdmissibleEntity ==
    LET ok == SelectSeq(searched, LAMBDA e : e.any_ok)
    IN  /\ Len(meta_df) = Len(ok)
        /\ \A n \in DOMAIN meta_df : meta_df[n].profile_name = ok[n].profile_name
        /\ \A n, m \in DOMAIN meta_df :
              meta_df[n].profile_name = meta_df[m].profile_name => n = m
        /\ NamesOf(meta_df) \cap Inadmissible = {}
        /\ NamesOf(meta_df) \subseteq NamesOf(model_data)
        /\ ModelReturned => NamesOf(model_data) \subseteq NamesOf(searched)

\* model() returned a table with a record, and the input had an entity that
\* the Preparer dropped
C6_Witness ==
    /\ ModelReturned
    /\ meta_df # << >>
    /\ NamesOf(data) \ NamesOf(model_data) # {}
    /\ NamesOf(meta_df) = NamesOf(model_data)

\* C7: the fitted model evaluate_arima_model returns for a sequence was
\* fitted on all the values of the sequence.
C7_FittedOnWholeSequence ==
    (Returned /\ ~last_eval.raised /\ last_eval.order # None) =>
        /\ last_eval.model_fit[1].hist = X
        /\ best_model[1].hist = X

\* C8: the fit that forecasts test[t] is given exactly the first
\* train_size + t values of the sequence; a call that does not raise fits
\* once per test value; the sequence itself is never modified.
C8_FitHistories ==
    /\ \A t \in DOMAIN last_eval.fits :
          last_eval.fits[t] = Slice(X, 0, TrainSize(X) + t - 1)
    /\ (last_eval.order # None /\ ~last_eval.raised) =>
          Len(last_eval.fits) = Len(X) - TrainSize(X)

C8_NoLookAhead == [] C8_FitHistories /\ [][X' = X]_vars

\* a call made two fits, the second on a history that ends with an actual
\* test value different from the forecast made for it
C8_Witness ==
    /\ Returned
    /\ ~last_eval.raised
    /\ Len(last_eval.fits) >= 2
    /\ last_eval.predictions[1] # X[TrainSize(X) + 1]

PeriodsOf(rows, name) ==
    Cardinality({rows[n].week_date : n \in {m \in DOMAIN rows : rows[m].profile_name = name}})

\* C9: every entity of the Preparer output has more than 5 periods, also
\* when the input holds duplicate (entity, period) rows.
C9_MoreThanFivePeriods ==
    pc \notin {"extract", "transform"} =>
        \A e \in NamesOf(model_data) : PeriodsOf(model_data, e) > MinWeekCount

\* the number of skipped entities the batch reports
SkippedReported == Cardinality({n \in DOMAIN log : log[n][1] = "skipped"})

\* C10: a run in which some entities had every candidate order fail
\* completes, and reports as many skipped entities.
C10_SkippedEntitiesCounted ==
    (Inadmissible # {} /\ pc # "search") =>
        /\ pc # "crashed"
        /\ SkippedReported = Cardinality(Inadmissible)

\* position of a value in a range as supplied
PositionIn(range, v) == CHOOSE n \in DOMAIN range : range[n] = v

\* order a comes before order b when p is the outer loop, d the middle one
\* and q the inner one
EnumeratedBefore(a, b) ==
    LET pa == PositionIn(p_values, a[1])
        pb == PositionIn(p_values, b[1])
        da == PositionIn(d_values, a[2])
        db_ == PositionIn(d_values, b[2])
        qa == PositionIn(q_values, a[3])
        qb == PositionIn(q_values, b[3])
    IN  \/ pa < pb
        \/ pa = pb /\ da < db_
        \/ pa = pb /\ da = db_ /\ qa < qb

\* p_values x d_values x q_values
Product ==
    {<<p_values[a], d_values[b], q_values[c]>> :
        a \in DOMAIN p_values, b \in DOMAIN d_values, c \in DOMAIN q_values}

\* C11: the calls of the Model Evaluator made so far are for triples of the
\* Cartesian product, each call for a triple that comes after that of the
\* call before it in the order p outer, d middle, q inner (so no triple is
\* called twice); when the search returns, the calls are as many as the
\* triples of the product and every triple had its call.
C11_FullProductInLoopOrder ==
    /\ \A n \in DOMAIN results : results[n].order \in Product
    /\ \A n \in 2..Len(results) :
          EnumeratedBefore(results[n - 1].order, results[n].order)
    /\ Returned =>
          /\ {results[n].order : n \in DOMAIN results} = Product
          /\ Len(results) = Len(p_values) * Len(d_values) * Len(q_values)

\* a search over two values of p, of d and of q returned after eight calls,
\* the first of which raised while the best order came later
C11_Witness ==
    /\ Returned
    /\ Len(p_values) = 2 /\ Len(d_values) = 2 /\ Len(q_values) = 2
    /\ Len(results) = 8
    /\ results[1].raised
    /\ results[2].order = <<0, 0, 1>>
    /\ results[3].order = <<0, 1, 0>>
    /\ results[5].order = <<1, 0, 0>>
    /\ best_cfg = <<1, 1, 1>>

\* C12: when the Preparer output has no entity, model() makes no search and
\* no fit, does not raise, and the table it returns has no row and the eight
\* result columns.
C12_EmptyBatchGivesEmptyTable ==
    (pc \notin {"extract", "transform"} /\ model_data = << >>) =>
        /\ pc \notin {"search", "crashed"}
        /\ searched = << >>
        /\ results = << >>
        /\ last_eval = NoEval
        /\ meta_df = << >>
        /\ ModelReturned =>
              columns = {"profile_name", "best_config", "mse", "prediction",
                         "std_error", "lower_bound", "upper_bound",
                         "forecast_start"}

\* the batch is over, the extracted table had rows, none of its entities
\* survived the Preparer and an empty table was loaded
C12_Witness ==
    /\ pc = "done"
    /\ data # << >>
    /\ model_data = << >>
    /\ meta_df = << >>
    /\ db = << >>
    /\ Cardinality(columns) = 8

\* the latest call of evaluate_arima_model, as the search saw it
LastCall == results[Len(results)]

\* C13: a call of evaluate_arima_model whose test partition is empty ends in
\* an exception, without having fitted a model or made a forecast, and
\* returns neither a score nor a model.
C13_EmptyTestFailsFast ==
    (last_eval.order # None /\ last_eval.test = << >>) =>
        /\ last_eval.raised
        /\ last_eval.fits = << >>
        /\ last_eval.predictions = << >>
        /\ LastCall.raised
        /\ LastCall.nfit = 0
        /\ LastCall.model_fit = None
        /\ best_cfg = None /\ best_model = None /\ best_score = Inf

\* evaluate_arima_model was called on the empty sequence, and the search
\* that called it returned
C13_Witness ==
    /\ Returned
    /\ X = << >>
    /\ Len(results) = 1
    /\ LastCall.raised
    /\ LastCall.nfit = 0

\* C14: with a fitting routine that is a pure function of (history, order),
\* a second call of evaluate_models on the same sequence and ranges returns
\* the best_cfg and best_score the first call returned.
C14_SecondCallReturnsTheSame ==
    (Returned /\ first_run # None) =>
        /\ best_cfg = first_run[1].cfg
        /\ best_score = first_run[1].score

\* the second call returned; both orders made two fits and scored the same
\* error, not zero, and the first of them is the result of both calls
C14_Witness ==
    /\ Returned
    /\ first_run # None
    /\ Len(results) = 2
    /\ Successes = {1, 2}
    /\ results[1].nfit = 2
    /\ results[1].mse = results[2].mse
    /\ results[1].mse.num > 0
    /\ best_cfg = results[1].order
    /\ first_run[1].cfg = results[1].order

\* the batch has stopped: main returned, or an exception left it
BatchOver == pc \in {"done", "crashed"}

\* C15: whether an entity gets a Forecast Record depends on its own series
\* only: an entity whose own Order Search had a successful candidate has its
\* record in the table the batch hands on, whatever the other entities of
\* the batch are (also one for which every order fails).
C15_RecordDependsOnOwnSeriesOnly ==
    BatchOver =>
        \A n \in DOMAIN searched :
            searched[n].any_ok => searched[n].profile_name \in NamesOf(db)

\* C16: in every record of the table model() returned, the bounds (kept in
\* hundredths) are the prediction minus and plus 1.96 times the standard
\* error: they lie at the same distance from the prediction, and with a
\* standard error >= 0 the prediction lies between them.
C16_BoundsAroundPrediction ==
    ModelReturned =>
        \A n \in DOMAIN meta_df :
            LET r == meta_df[n]
            IN  /\ 100 * r.lower_bound = 10000 * r.prediction - 19600 * r.std_error
                /\ 100 * r.upper_bound = 10000 * r.prediction + 19600 * r.std_error
                /\ 100 * r.prediction - r.lower_bound
                     = r.upper_bound - 100 * r.prediction
                /\ r.std_error >= 0 =>
                      /\ r.lower_bound <= 100 * r.prediction
                      /\ 100 * r.prediction <= r.upper_bound

\* model() returned a table with a record whose standard error is 0 (the
\* bounds meet the prediction) and one whose standard error is not (the
\* prediction is strictly between the bounds)
C16_Witness ==
    /\ ModelReturned
    /\ \E n, m \in DOMAIN meta_df :
          /\ meta_df[n].std_error = 0
          /\ meta_df[n].lower_bound = meta_df[n].upper_bound
          /\ meta_df[m].std_error > 0
          /\ meta_df[m].lower_bound < 100 * meta_df[m].prediction
          /\ 100 * meta_df[m].prediction < meta_df[m].upper_bound

\* the entity identifiers of a table, in the order of its rows
NameSeq(rows) == [n \in DOMAIN rows |-> rows[n].profile_name]

StrictlyAscending(seq) == \A n \in 1..(Len(seq) - 1) : seq[n] < seq[n + 1]

\* C17: the Order Searches of model() are run in strictly ascending order of
\* entity identifier (so no entity twice), on entities of its input, none
\* before an entity with a smaller identifier; the records of its table are
\* in ascending order; when model() returns, every distinct entity of its
\* input was searched and the records are in the order of the searches.
C17_AscendingEntityOrder ==
    /\ StrictlyAscending(NameSeq(searched))
    /\ StrictlyAscending(NameSeq(meta_df))
    /\ NamesOf(searched) \subseteq NamesOf(model_data)
    /\ \A e \in NamesOf(model_data) \ NamesOf(searched) :
          \A n \in DOMAIN searched : searched[n].profile_name < e
    /\ ModelReturned =>
          /\ NamesOf(searched) = NamesOf(model_data)
          /\ NameSeq(meta_df) = NameSeq(searched)

\* model() returned a table of two records, for entities 1 and 2 in that
\* order
C17_Witness ==
    /\ ModelReturned
    /\ NameSeq(searched) = <<1, 2>>
    /\ NameSeq(meta_df) = <<1, 2>>

\* C18: every record of the table model() returned carries the same
\* forecast_start, the value fixed when the batch started.
C18_OneForecastStart ==
    /\ forecast_start = ForecastStart
    /\ ModelReturned =>
          \A n \in DOMAIN meta_df : meta_df[n].forecast_start = forecast_start

\* model() returned a table of two records, both stamped
C18_Witness ==
    /\ ModelReturned
    /\ Len(meta_df) = 2
    /\ meta_df[1].forecast_start = ForecastStart
    /\ meta_df[2].forecast_start = ForecastStart

\* a call of evaluate_arima_model was made, and did not raise
CallSucceeded == last_eval.order # None /\ ~last_eval.raised

\* C19: a call of evaluate_arima_model on n values partitions them into a
\* training prefix of floor(0.75 * n) values and a test suffix of the rest,
\* which concatenated are the sequence; the test partition has a value as
\* soon as n >= 1, and the training prefix is empty only for n <= 1; the
\* first fit is on the training prefix.
C19_PartitionAtThreeQuarters ==
    last_eval.order # None =>
        LET n == Len(X)
            train == last_eval.train
            test == last_eval.test
        IN  /\ 4 * Len(train) <= 3 * n
            /\ 3 * n < 4 * (Len(train) + 1)
            /\ train \o test = X
            /\ n >= 1 => Len(test) >= 1
            /\ Len(train) = 0 => n <= 1
            /\ last_eval.fits # << >> => last_eval.fits[1] = train

\* a call on five values: three for training, two held out
C19_Witness ==
    /\ Returned
    /\ Len(X) = 5
    /\ Len(last_eval.train) = 3
    /\ Len(last_eval.test) = 2
    /\ last_eval.test = <<X[4], X[5]>>

\* the squared difference between the forecast recorded at step t and the
\* test value of index t
SquaredError(t) ==
    LET diff == last_eval.predictions[t] - X[Len(last_eval.train) + t]
    IN  diff * diff

RECURSIVE SquaredErrorsUpTo(_)
SquaredErrorsUpTo(t) ==
    IF t = 0 THEN 0 ELSE SquaredError(t) + SquaredErrorsUpTo(t - 1)

\* C20: a call of evaluate_arima_model that succeeds made one fit and
\* recorded one forecast per test value, the forecast of step t being that
\* of the fit on the history up to the test value of index t; the score it
\* returns is the mean over the test indices of the squared difference
\* between that forecast and the test value, and is not negative.
C20_MeanSquaredForecastError ==
    CallSucceeded =>
        LET n == Len(last_eval.test)
        IN  /\ n >= 1
            /\ Len(last_eval.fits) = n
            /\ Len(last_eval.predictions) = n
            /\ \A t \in 1..n : Len(last_eval.fits[t]) = Len(last_eval.train) + t - 1
            /\ last_eval.model_fit[1].yhat = last_eval.predictions[n]
            /\ last_eval.mse.den > 0
            /\ last_eval.mse.num * n = SquaredErrorsUpTo(n) * last_eval.mse.den
            /\ last_eval.mse.num >= 0
            /\ LastCall.mse = last_eval.mse

\* a call with two test values succeeded; its first forecast was right and
\* its second was wrong by one: the score is one half
C20_Witness ==
    /\ Returned
    /\ CallSucceeded
    /\ Len(last_eval.test) = 2
    /\ last_eval.predictions[1] = last_eval.test[1]
    /\ last_eval.predictions[2] # last_eval.test[2]
    /\ 2 * last_eval.mse.num = last_eval.mse.den

\* transform has returned
Prepared == pc \notin {"extract", "transform"}

\* the rows of the Preparer output that belong to entity e
RowsOfEntity(e) == {n \in DOMAIN model_data : model_data[n].profile_name = e}

\* the value of the Preparer output for entity e in its j-th period,
\* counting its periods from the earliest
ChronologicalValues(e) ==
    [j \in 1..Cardinality(RowsOfEntity(e)) |->
        LET n == CHOOSE a \in RowsOfEntity(e) :
                   Cardinality({b \in RowsOfEntity(e) :
                       model_data[b].week_date < model_data[a].week_date}) = j - 1
        IN  model_data[n].weight]

\* C21: in the Preparer output the rows of an entity are in strictly
\* ascending order of period; the values model() takes for an entity are its
\* values in chronological order, and those are what Order Search is given.
C21_ChronologicalOrder ==
    Prepared =>
        /\ \A n, m \in DOMAIN model_data :
              (n < m /\ model_data[n].profile_name = model_data[m].profile_name)
                => model_data[n].week_date < model_data[m].week_date
        /\ \A e \in NamesOf(model_data) :
              WeightsOf(model_data, e) = ChronologicalValues(e)
        /\ pc = "search" =>
              X = [j \in 1..Cardinality(RowsOfEntity(ids[i + 1])) |->
                      AsFloat32(ChronologicalValues(ids[i + 1])[j])]

\* the table was given latest period first; two entities survive and the
\* search of the first is given its six values, earliest first
C21_Witness ==
    /\ pc = "search"
    /\ Len(data) >= 2
    /\ data[1].week_date > data[Len(data)].week_date
    /\ Cardinality(NamesOf(model_data)) = 2
    /\ Len(X) = 6
    /\ \A j \in 1..5 : X[j] < X[j + 1]

\* the rows of the input of entity e that are before the cutoff
RowsBeforeCutoff(e) ==
    {n \in DOMAIN data :
        data[n].profile_name = e /\ data[n].week_date < forecast_start}

\* input row n passed the cutoff filter and the threshold filter
PassedFilters(n) ==
    /\ data[n].week_date < forecast_start
    /\ Cardinality(RowsBeforeCutoff(data[n].profile_name)) > MinWeekCount

\* the input rows that passed the filters and have the entity and period of
\* row r
SameKeyAs(r) ==
    {n \in DOMAIN data :
        /\ PassedFilters(n)
        /\ data[n].profile_name = r.profile_name
        /\ data[n].week_date = r.week_date}

RECURSIVE SumOfWeights(_)
SumOfWeights(S) ==
    IF S = {} THEN 0
    ELSE LET n == CHOOSE a \in S : TRUE
         IN  data[n].weight + SumOfWeights(S \ {n})

\* C22: the Preparer output has at most one row per (entity, period); the
\* value of a row is the sum of the values of the input rows of that entity
\* and period that passed the cutoff and threshold filters; and every input
\* row that passed them is counted in a row of the output.
C22_DuplicatesSummed ==
    Prepared =>
        /\ \A n, m \in DOMAIN model_data :
              (/\ model_data[n].profile_name = model_data[m].profile_name
               /\ model_data[n].week_date = model_data[m].week_date) => n = m
        /\ \A n \in DOMAIN model_data :
              /\ SameKeyAs(model_data[n]) # {}
              /\ model_data[n].weight = SumOfWeights(SameKeyAs(model_data[n]))
        /\ \A m \in DOMAIN data :
              PassedFilters(m) =>
                \E n \in DOMAIN model_data : m \in SameKeyAs(model_data[n])

\* the input had two rows for an entity and period, and the output has one
\* row for them, with the sum of their values
C22_Witness ==
    /\ Prepared
    /\ \E n \in DOMAIN model_data :
          /\ Cardinality(SameKeyAs(model_data[n])) = 2
          /\ model_data[n].weight = 2 * model_data[n].week_date

\* C23: every row of the Preparer output has a period strictly before
\* forecast_start, and every entity of the output has more than the
\* threshold of input rows strictly before forecast_start: rows at or after
\* the cutoff do not count.
C23_StrictlyBeforeCutoff ==
    Prepared =>
        /\ \A n \in DOMAIN model_data :
              model_data[n].week_date < forecast_start
        /\ \A e \in NamesOf(model_data) :
              Cardinality(RowsBeforeCutoff(e)) > MinWeekCount

\* an entity with more rows than the threshold, one of them at the cutoff,
\* is absent from the output; another entity survives, without its row
\* after the cutoff
C23_Witness ==
    /\ Prepared
    /\ \E e \in NamesOf(data) \ NamesOf(model_data) :
          /\ Cardinality({n \in DOMAIN data : data[n].profile_name = e})
                > MinWeekCount
          /\ \E n \in DOMAIN data :
                data[n].profile_name = e /\ data[n].week_date = forecast_start
    /\ \E e \in NamesOf(model_data) :
          \E n \in DOMAIN data :
             data[n].profile_name = e /\ data[n].week_date > forecast_start

\* C24: at every point of the grid loop the best-so-far is the initial
\* (None, inf, None) or the order, score and model of one and the same
\* successful candidate; best_cfg is None exactly when best_model is; and
\* no step of the loop increases best_score.
C24_BestIsOneCandidate ==
    /\ \/ best_cfg = None /\ best_score = Inf /\ best_model = None
       \/ \E n \in Successes :
             /\ results[n].order = best_cfg
             /\ results[n].mse = best_score
             /\ results[n].model_fit = best_model
    /\ (best_cfg = None) <=> (best_model = None)

C24_ScoreNeverIncreases == ~ScoreLess(best_score, best_score')

C24_BestTripleCoherent ==
    [] C24_BestIsOneCandidate /\ [][C24_ScoreNeverIncreases]_vars

\* in the middle of the loop: two candidates evaluated, both successfully,
\* the second with the higher error, and the best-so-far is the first
C24_Witness ==
    /\ pc = "search"
    /\ k = 2
    /\ k < Len(TheGrid)
    /\ Successes = {1, 2}
    /\ ScoreLess(results[1].mse, results[2].mse)
    /\ best_cfg = results[1].order
    /\ best_model = results[1].model_fit

\* the positions of a line in the log
LogPositions(line) == {n \in DOMAIN log : log[n][1] = line}

Logged(line) == LogPositions(line) # {}

\* line a is in the log once, and before any line b
LoggedBefore(a, b) ==
    /\ Cardinality(LogPositions(a)) = 1
    /\ \A n \in LogPositions(a) : \A m \in LogPositions(b) : n < m

\* C25: the stages of main begin at most once each and in the order extract,
\* transform, model, load, each after the stage before it has completed;
\* load begins only when every entity has been processed, and what it
\* persists is the table model() returned; last_model_run is written only
\* after load has completed; when extract, model or load raises, no later
\* stage has begun, and after a failure of model() nothing is persisted and
\* last_model_run is unchanged.
C25_StagesInOrder ==
    LET extracted   == LogPositions("Data Extraction completed successfully")
        transforming == LogPositions("Begin data transformation")
        transformed == LogPositions("Data transformation completed successfully")
        modelling   == LogPositions("Begin modelling")
        loading     == LogPositions("Begin data load")
        loaded      == LogPositions("Data load completed successfully")
    IN  /\ Cardinality(LogPositions("Begin Extract")) <= 1
        /\ Cardinality(transforming) <= 1
        /\ Cardinality(modelling) <= 1
        /\ Cardinality(loading) <= 1
        /\ transforming # {} =>
              /\ Cardinality(extracted) = 1
              /\ \A n \in extracted : \A m \in transforming : n < m
        /\ modelling # {} =>
              /\ Cardinality(transformed) = 1
              /\ \A n \in transformed : \A m \in modelling : n < m
        /\ loading # {} =>
              /\ LoggedBefore("Begin modelling", "Begin data load")
              /\ i = Len(ids)
              /\ NamesOf(searched) = NamesOf(model_data)
              /\ \A n \in LogPositions("model complete") :
                    \A m \in loading : n < m
        /\ db # << >> =>
              /\ loaded # {}
              /\ db = meta_df
        /\ last_model_run # None =>
              /\ loaded # {}
              /\ last_model_run = <<forecast_start>>
              /\ pc = "done"
        /\ pc = "extract_failed" =>
              /\ transforming = {}
              /\ modelling = {}
              /\ loading = {}
              /\ last_model_run = None
        /\ pc = "crashed" =>
              /\ loading = {}
              /\ db = << >>
              /\ last_model_run = None
        /\ pc = "load_failed" =>
              /\ loaded = {}
              /\ last_model_run = None

\* model() raised at its second entity, after the record of the first was
\* built: nothing was loaded and the config was not written
C25_Witness ==
    /\ pc = "crashed"
    /\ Len(meta_df) = 1
    /\ Len(searched) = 2
    /\ Logged("model complete")
    /\ ~Logged("Begin data load")
    /\ db = << >>
    /\ last_model_run = None

=============================================================================
